---- MODULE Spec2Model ----
(***************************************************************************)
(* Job staging substrate of lwr: path containment (get_mapped_file,       *)
(* is_in_directory), JobDirectory, atomicish_move and the manager          *)
(* lifecycle.                                                              *)
(*                                                                         *)
(* A path is a Python str, modelled as a sequence of one-character         *)
(* strings over Alphabet.  The filesystem holds directories only, each     *)
(* named by the sequence of its component names below "/"; there are no    *)
(* symbolic links and the working directory is "/".                        *)
(***************************************************************************)
EXTENDS Integers, Sequences, FiniteSets, TLC

\* ------------------------------------------------------------------ bounds
MaxLen == 6          \* longest client path handed to get_mapped_file
MaxIdLen == 2        \* longest job id
MaxDirs == 4         \* most directories the modelled filesystem holds
MaxChunks == 3       \* longest file, in copy buffers, handed to atomicish_move
MaxJobs == 2         \* number of job ids a manager sees

Alphabet == {"/", ".", "a"}

RECURSIVE StrsOfLen(_)
StrsOfLen(n) ==
    IF n = 0 THEN {<<>>}
    ELSE {Append(s, c) : s \in StrsOfLen(n - 1), c \in Alphabet}

StrsUpTo(n) == UNION {StrsOfLen(k) : k \in 0..n}

\* ------------------------------------------------------- str primitives
startswith_sep(p) == Len(p) > 0 /\ p[1] = "/"

endswith_sep(p) == Len(p) > 0 /\ p[Len(p)] = "/"

\* p.rfind('/') + 1
rfind_sep(p) ==
    LET idx == {i \in 1..Len(p) : p[i] = "/"}
    IN  IF idx = {} THEN 0 ELSE CHOOSE i \in idx : \A j \in idx : j <= i

\* p == '/' * len(p)
all_sep(p) == \A i \in 1..Len(p) : p[i] = "/"

\* p.rstrip('/')
rstrip_sep(p) ==
    LET keep == {i \in 1..Len(p) : p[i] # "/"}
    IN  IF keep = {} THEN <<>>
        ELSE SubSeq(p, 1, CHOOSE i \in keep : \A j \in keep : j <= i)

\* p.split('/')
RECURSIVE str_split(_)
str_split(p) ==
    LET idx == {i \in 1..Len(p) : p[i] = "/"}
    IN  IF idx = {} THEN <<p>>
        ELSE LET i == CHOOSE k \in idx : \A j \in idx : k <= j
             IN  <<SubSeq(p, 1, i - 1)>> \o str_split(SubSeq(p, i + 1, Len(p)))

\* '/'.join(comps)
RECURSIVE str_join(_)
str_join(comps) ==
    IF comps = <<>> THEN <<>>
    ELSE IF Len(comps) = 1 THEN comps[1]
    ELSE comps[1] \o <<"/">> \o str_join(Tail(comps))

\* ------------------------------------------------------------- posixpath
\* posixpath.split
split(p) ==
    LET i == rfind_sep(p)
        head == SubSeq(p, 1, i)
        tail == SubSeq(p, i + 1, Len(p))
    IN  <<IF head # <<>> /\ ~all_sep(head) THEN rstrip_sep(head) ELSE head, tail>>

basename(p) == SubSeq(p, rfind_sep(p) + 1, Len(p))

dirname(p) == split(p)[1]

isabs(p) == startswith_sep(p)

\* posixpath.join(a, b)
join(a, b) ==
    IF startswith_sep(b) THEN b
    ELSE IF a = <<>> \/ endswith_sep(a) THEN a \o b
    ELSE a \o <<"/">> \o b

\* posixpath.join(*parts), parts non-empty
RECURSIVE join_all(_)
join_all(parts) ==
    IF Len(parts) = 1 THEN parts[1]
    ELSE join_all(<<join(parts[1], parts[2])>> \o SubSeq(parts, 3, Len(parts)))

\* the loop of posixpath.normpath over the components
RECURSIVE norm_comps(_, _, _)
norm_comps(comps, new_comps, initial_slashes) ==
    IF comps = <<>> THEN new_comps
    ELSE LET comp == Head(comps)
             n == Len(new_comps)
         IN  IF comp = <<>> \/ comp = <<".">>
             THEN norm_comps(Tail(comps), new_comps, initial_slashes)
             ELSE IF comp # <<".", ".">>
                     \/ (initial_slashes = 0 /\ n = 0)
                     \/ (n > 0 /\ new_comps[n] = <<".", ".">>)
             THEN norm_comps(Tail(comps), Append(new_comps, comp), initial_slashes)
             ELSE IF n > 0
             THEN norm_comps(Tail(comps), SubSeq(new_comps, 1, n - 1), initial_slashes)
             ELSE norm_comps(Tail(comps), new_comps, initial_slashes)

\* posixpath.normpath
normpath(p) ==
    IF p = <<>> THEN <<".">>
    ELSE LET initial_slashes ==
                 IF ~startswith_sep(p) THEN 0
                 ELSE IF Len(p) >= 2 /\ p[2] = "/" /\ ~(Len(p) >= 3 /\ p[3] = "/")
                 THEN 2 ELSE 1
             comps == norm_comps(str_split(p), <<>>, initial_slashes)
             path == [i \in 1..initial_slashes |-> "/"] \o str_join(comps)
         IN  IF path = <<>> THEN <<".">> ELSE path

getcwd == <<"/">>

\* posixpath.abspath
abspath(p) == normpath(IF isabs(p) THEN p ELSE join(getcwd, p))

\* posixpath.commonprefix([a, b])
commonprefix(a, b) ==
    LET m == IF Len(a) < Len(b) THEN Len(a) ELSE Len(b)
        diff == {i \in 1..m : a[i] # b[i]}
    IN  IF diff = {} THEN SubSeq(a, 1, m)
        ELSE SubSeq(a, 1, (CHOOSE i \in diff : \A j \in diff : i <= j) - 1)

\* --------------------------------------------------------------- os (fs)
\* A filesystem is the set of its directories; <<>> is "/".
parent_of(d) == IF d = <<>> THEN d ELSE SubSeq(d, 1, Len(d) - 1)

\* Kernel path lookup from directory cur: every named component must be an
\* existing directory; "", "." stay, ".." goes to the parent.
RECURSIVE walk(_, _, _)
walk(dirs, cur, comps) ==
    IF comps = <<>> THEN [ok |-> TRUE, at |-> cur]
    ELSE LET c == Head(comps)
         IN  IF c = <<>> \/ c = <<".">> THEN walk(dirs, cur, Tail(comps))
             ELSE IF c = <<".", ".">> THEN walk(dirs, parent_of(cur), Tail(comps))
             ELSE IF Append(cur, c) \in dirs THEN walk(dirs, Append(cur, c), Tail(comps))
             ELSE [ok |-> FALSE, at |-> cur]

\* os.path.exists
exists(dirs, p) == p # <<>> /\ walk(dirs, <<>>, str_split(p)).ok

\* os.mkdir: [err, dirs]
mkdir(dirs, p) ==
    LET comps == str_split(p)
        named == {i \in 1..Len(comps) : comps[i] # <<>>}
    IN  IF p = <<>> THEN [err |-> "ENOENT", dirs |-> dirs]
        ELSE IF named = {} THEN [err |-> "EEXIST", dirs |-> dirs]
        ELSE LET n == CHOOSE i \in named : \A j \in named : j <= i
                 last == comps[n]
                 par == walk(dirs, <<>>, SubSeq(comps, 1, n - 1))
             IN  IF ~par.ok THEN [err |-> "ENOENT", dirs |-> dirs]
                 ELSE IF last = <<".">> \/ last = <<".", ".">>
                         \/ Append(par.at, last) \in dirs
                 THEN [err |-> "EEXIST", dirs |-> dirs]
                 ELSE [err |-> "OK", dirs |-> dirs \cup {Append(par.at, last)}]

\* os.makedirs: [err, dirs]
RECURSIVE makedirs(_, _)
makedirs(dirs, name) ==
    LET s1 == split(name)
        s == IF s1[2] = <<>> THEN split(s1[1]) ELSE s1
        head == s[1]
        tail == s[2]
    IN  IF head # <<>> /\ tail # <<>> /\ ~exists(dirs, head)
        THEN LET r == makedirs(dirs, head)
             IN  IF r.err \notin {"OK", "EEXIST"} THEN r
                 ELSE IF tail = <<".">> THEN [err |-> "OK", dirs |-> r.dirs]
                 ELSE mkdir(r.dirs, name)
        ELSE mkdir(dirs, name)

\* ------------------------------------------------------ path containment
\* is_in_directory
is_in_directory(file, directory) ==
    commonprefix(abspath(file), abspath(directory)) = abspath(directory)

\* The loop of __posix_to_local_path.  posixpath.split leaves a path of two
\* or more slashes unchanged, so the loop then never ends.
RECURSIVE posix_parts(_, _)
posix_parts(path, partial_path) ==
    IF path = <<>> \/ path = <<"/">> THEN [diverges |-> FALSE, parts |-> partial_path]
    ELSE LET s == split(path)
         IN  IF s[1] = path THEN [diverges |-> TRUE, parts |-> partial_path]
             ELSE posix_parts(s[1], <<s[2]>> \o partial_path)

\* __posix_to_local_path: [outcome, path]
posix_to_local_path(path) ==
    LET r == posix_parts(path, <<>>)
    IN  IF r.diverges THEN [outcome |-> "hang", path |-> <<>>]
        ELSE IF r.parts = <<>> THEN [outcome |-> "TypeError", path |-> <<>>]
        ELSE [outcome |-> "return", path |-> join_all(r.parts)]

\* get_mapped_file: [outcome, path, dirs]
get_mapped_file(dirs, directory, remote_path, allow_nested_files, mk) ==
    IF ~allow_nested_files
    THEN [outcome |-> "return", path |-> join(directory, basename(remote_path)),
          dirs |-> dirs]
    ELSE LET rel == posix_to_local_path(remote_path)
             local_path == join(directory, rel.path)
             local_directory == dirname(local_path)
         IN  IF rel.outcome # "return"
             THEN [outcome |-> rel.outcome, path |-> <<>>, dirs |-> dirs]
             ELSE IF ~is_in_directory(local_path, directory)
             THEN [outcome |-> "Exception", path |-> <<>>, dirs |-> dirs]
             ELSE IF mk /\ ~exists(dirs, local_directory)
             THEN LET m == makedirs(dirs, local_directory)
                  IN  IF m.err # "OK"
                      THEN [outcome |-> "OSError", path |-> <<>>, dirs |-> m.dirs]
                      ELSE [outcome |-> "return", path |-> local_path, dirs |-> m.dirs]
             ELSE [outcome |-> "return", path |-> local_path, dirs |-> dirs]

\* ---------------------------------------------------------- JobDirectory
\* JobDirectory.__init__: [outcome, job_directory]
JobDirectory(staging_directory, job_id) ==
    IF job_id # basename(job_id)
    THEN [outcome |-> "AssertionError", job_directory |-> <<>>]
    ELSE [outcome |-> "return", job_directory |-> join(staging_directory, job_id)]

\* JobDirectory._job_file
job_file(job_directory, name) == join(job_directory, name)

\* JobDirectory.exists
jd_exists(dirs, job_directory) == exists(dirs, job_directory)

\* JobDirectory.setup: [err, dirs]
jd_setup(dirs, job_directory) == mkdir(dirs, job_directory)

\* JobDirectory.make_directory: [err, dirs]
make_directory(dirs, job_directory, name) == mkdir(dirs, job_file(job_directory, name))

is_prefix(a, b) == Len(a) <= Len(b) /\ SubSeq(b, 1, Len(a)) = a

\* the directories at or below d
subtree(dirs, d) == {x \in dirs : is_prefix(d, x)}

\* the last named component of a path
last_comp(p) ==
    LET comps == str_split(p)
        named == {i \in 1..Len(comps) : comps[i] # <<>>}
    IN  IF named = {} THEN <<>>
        ELSE comps[CHOOSE i \in named : \A j \in named : j <= i]

\* shutil.rmtree(path), ignore_errors=False: the set of its possible [err, dirs].
\* listdir's order is not fixed, and every entry is removed by the name
\* path/entry: below "x/.." those names stop resolving once x is removed.
rmtree(dirs, path) ==
    IF ~exists(dirs, path) THEN {[err |-> "ENOENT", dirs |-> dirs]}
    ELSE LET t == walk(dirs, <<>>, str_split(path)).at
             last == last_comp(path)
             below == subtree(dirs, t) \ {t}
         IN  IF last = <<".">> THEN {[err |-> "EINVAL", dirs |-> dirs \ below]}
             ELSE IF last = <<".", ".">>
             THEN LET via == walk(dirs, <<>>, str_split(dirname(path))).at
                      others == {c \in dirs : Len(c) = Len(t) + 1 /\ is_prefix(t, c)
                                              /\ c # via}
                  IN  IF via = t THEN {[err |-> "EBUSY", dirs |-> dirs \ below]}
                      ELSE {[err |-> "ENOENT",
                             dirs |-> dirs \ (subtree(dirs, via)
                                        \cup UNION {subtree(dirs, c) : c \in before})] :
                            before \in SUBSET others}
             ELSE IF t = <<>> THEN {[err |-> "EBUSY", dirs |-> dirs \ below]}
             ELSE {[err |-> "OK", dirs |-> dirs \ subtree(dirs, t)]}

\* JobDirectory.delete
jd_delete(dirs, job_directory) == rmtree(dirs, job_directory)

\* ================================================================= state
VARIABLES
    fs,        \* the filesystem: the set of its directories
    call,      \* the operation last called, with its arguments
    ret,       \* its outcome: [outcome, path, value]; "pending" before it ran
    jd,        \* the JobDirectory object the caller holds: [made, job_directory]
    files,     \* atomicish_move: the content of source, temp and destination
    mv,        \* atomicish_move: [pc, same_fs, written]
    status,    \* manager: job id -> lifecycle status
    seen       \* manager: the operation last served and what it returned

vars == <<fs, call, ret, jd, files, mv, status, seen>>

pending == [outcome |-> "pending", path |-> <<>>, value |-> FALSE]

no_jd == [made |-> FALSE, job_directory |-> <<>>]

no_call == [op |-> "none"]

move_idle == files = <<>> /\ mv = <<>>

mgr_idle == status = <<>> /\ seen = <<>>

\* the components of a normalized absolute path
comps_of(p) == SelectSeq(str_split(p), LAMBDA c : c # <<>>)

\* a directory together with its ancestors
with_ancestors(d) == {SubSeq(d, 1, k) : k \in 0..Len(d)}

\* ------------------------------------------------- path mapping (SpecMap)
Roots == {<<"/", "a">>, <<"/", "a", "/", "a">>}

MapCalls ==
    [op : {"get_mapped_file"}, directory : Roots, remote_path : StrsUpTo(MaxLen),
     allow_nested_files : BOOLEAN, mkdir : BOOLEAN]
    \cup [op : {"is_in_directory"}, file : StrsUpTo(MaxLen), directory : Roots]

\* The sandbox root exists; it is empty or holds the directory "a".
InitMap ==
    /\ call \in MapCalls
    /\ \E sub \in BOOLEAN :
          fs = with_ancestors(comps_of(call.directory)
                              \o IF sub THEN <<<<"a">>>> ELSE <<>>)
    /\ ret = pending
    /\ jd = no_jd
    /\ move_idle /\ mgr_idle

GetMappedFile ==
    /\ call.op = "get_mapped_file" /\ ret = pending
    /\ LET r == get_mapped_file(fs, call.directory, call.remote_path,
                                call.allow_nested_files, call.mkdir)
       IN  /\ ret' = [outcome |-> r.outcome, path |-> r.path, value |-> FALSE]
           /\ fs' = r.dirs
    /\ UNCHANGED <<call, jd, files, mv, status, seen>>

IsInDirectory ==
    /\ call.op = "is_in_directory" /\ ret = pending
    /\ ret' = [outcome |-> "return", path |-> <<>>,
               value |-> is_in_directory(call.file, call.directory)]
    /\ UNCHANGED <<fs, call, jd, files, mv, status, seen>>

NextMap == GetMappedFile \/ IsInDirectory

SpecMap == InitMap /\ [][NextMap]_vars

\* ------------------------------------------------ properties of SpecMap
\* path lies in root or below it, component by component
inside(path, root) == is_prefix(comps_of(abspath(root)), comps_of(abspath(path)))

\* the call is a nested-mode get_mapped_file whose translation ended
nested_call ==
    /\ call.op = "get_mapped_file" /\ call.allow_nested_files
    /\ posix_to_local_path(call.remote_path).outcome = "return"

\* its candidate: the root joined with the translated client path
candidate == join(call.directory, posix_to_local_path(call.remote_path).path)

\* C1: in nested mode a client path whose candidate resolves outside the
\* sandbox root fails with the containment error and leaves the filesystem
\* as it was, whether or not mkdir is set.
C1_EscapeFailsUnchanged ==
    [][(nested_call /\ ret = pending /\ ~inside(candidate, call.directory))
          => (ret'.outcome = "Exception" /\ fs' = fs)]_vars

\* C2: in non-nested mode get_mapped_file never returns a path outside the
\* sandbox root.
C2_FlatStaysInside ==
    (call.op = "get_mapped_file" /\ ~call.allow_nested_files /\ ret.outcome = "return")
        => inside(ret.path, call.directory)

\* C3: is_in_directory(path, root) is true exactly when, both made absolute,
\* path equals root or root is followed in path by a separator.
C3_SegmentAware ==
    (call.op = "is_in_directory" /\ ret.outcome = "return")
        => (ret.value <=>
              LET f == abspath(call.file)
                  d == abspath(call.directory)
              IN  f = d \/ is_prefix(d \o <<"/">>, f))

\* the client path is c1/.../cn with no empty component
plain_relative(p) == p # <<>> /\ \A i \in 1..Len(str_split(p)) : str_split(p)[i] # <<>>

\* C7: in nested mode a client path c1/.../cn whose candidate stays inside the
\* sandbox root is returned as the root joined with c1, ..., cn unchanged, and
\* with mkdir set the directory of the returned path exists on return.
C7_NestedPreserved ==
    [][(nested_call /\ ret = pending /\ plain_relative(call.remote_path)
           /\ inside(candidate, call.directory))
          => /\ ret'.outcome = "return"
             /\ ret'.path = call.directory \o <<"/">> \o call.remote_path
             /\ (call.mkdir => exists(fs', dirname(ret'.path)))]_vars

\* --------------------------------------------------- job directory (SpecJob)
staging_directory == <<"/", "a">>

JobIds == StrsUpTo(MaxIdLen)

\* names handed to make_directory: plain, nested, parent, sibling of the job
\* directory, absolute, empty
Names ==
    {<<"a">>, <<"a", "/", "a">>, <<".", ".">>, <<".", ".", "/", ".", "a">>,
     <<"/", ".", "a">>, <<>>}

outcome_of(err) == IF err = "OK" THEN "return" ELSE "OSError"

\* The staging root exists, or is missing.
InitJob ==
    /\ fs \in {with_ancestors(comps_of(staging_directory)), {<<>>}}
    /\ call = no_call
    /\ ret = pending
    /\ jd = no_jd
    /\ move_idle /\ mgr_idle

Construct(job_id) ==
    LET r == JobDirectory(staging_directory, job_id)
    IN  /\ call' = [op |-> "JobDirectory", job_id |-> job_id]
        /\ ret' = [outcome |-> r.outcome, path |-> r.job_directory, value |-> FALSE]
        /\ jd' = IF r.outcome = "return"
                 THEN [made |-> TRUE, job_directory |-> r.job_directory]
                 ELSE no_jd
        /\ UNCHANGED <<fs, files, mv, status, seen>>

Setup ==
    /\ jd.made /\ Cardinality(fs) < MaxDirs
    /\ LET r == jd_setup(fs, jd.job_directory)
       IN  /\ fs' = r.dirs
           /\ ret' = [outcome |-> outcome_of(r.err), path |-> <<>>, value |-> FALSE]
    /\ call' = [op |-> "setup"]
    /\ UNCHANGED <<jd, files, mv, status, seen>>

MakeDirectory(name) ==
    /\ jd.made /\ Cardinality(fs) < MaxDirs
    /\ LET r == make_directory(fs, jd.job_directory, name)
       IN  /\ fs' = r.dirs
           /\ ret' = [outcome |-> outcome_of(r.err), path |-> <<>>, value |-> FALSE]
    /\ call' = [op |-> "make_directory", name |-> name]
    /\ UNCHANGED <<jd, files, mv, status, seen>>

Exists ==
    /\ jd.made
    /\ ret' = [outcome |-> "return", path |-> <<>>,
               value |-> jd_exists(fs, jd.job_directory)]
    /\ call' = [op |-> "exists"]
    /\ UNCHANGED <<fs, jd, files, mv, status, seen>>

Delete ==
    /\ jd.made
    /\ \E r \in jd_delete(fs, jd.job_directory) :
          /\ fs' = r.dirs
          /\ ret' = [outcome |-> outcome_of(r.err), path |-> <<>>, value |-> FALSE]
    /\ call' = [op |-> "delete"]
    /\ UNCHANGED <<jd, files, mv, status, seen>>

NextJob ==
    \/ \E job_id \in JobIds : Construct(job_id)
    \/ Setup
    \/ \E name \in Names : MakeDirectory(name)
    \/ Exists
    \/ Delete

SpecJob == InitJob /\ [][NextJob]_vars

\* ------------------------------------------------ properties of SpecJob
has_sep(p) == \E i \in 1..Len(p) : p[i] = "/"

\* the job directory is staging_directory/name for a name that names a child
proper(job_directory) ==
    /\ ~endswith_sep(job_directory)
    /\ last_comp(job_directory) \notin {<<".">>, <<".", ".">>}

\* where a path resolves to, by name
resolved(p) == comps_of(abspath(p))

\* C4: a job id that holds a separator or is ".." is rejected when its
\* JobDirectory is constructed, and the root of every JobDirectory that exists
\* is a direct child of the staging root.
C4_BadJobIdRejected ==
    /\ (call.op = "JobDirectory" /\ (has_sep(call.job_id) \/ call.job_id = <<".", ".">>))
          => ret.outcome = "AssertionError"
    /\ (jd.made /\ jd_exists(fs, jd.job_directory))
          => parent_of(resolved(jd.job_directory)) = resolved(staging_directory)
             /\ resolved(jd.job_directory) # resolved(staging_directory)

\* C8: delete is idempotent: the job directory does not exist after a delete
\* that returned, and a second delete on the same job returns too.
C8_DeleteIdempotent ==
    [][(call'.op = "delete" /\ proper(jd.job_directory))
          => /\ (ret'.outcome = "return" => ~jd_exists(fs', jd.job_directory))
             /\ (call.op = "delete" /\ ret.outcome = "return")
                   => (ret'.outcome = "return" /\ ~jd_exists(fs', jd.job_directory))]_vars

\* C9: setup creates the root when the root is absent and the staging root
\* exists; when the root exists already or the staging root is missing it
\* fails and leaves the filesystem as it was.
C9_SetupCreatesOrFails ==
    [][call'.op = "setup"
          => IF ~exists(fs, jd.job_directory) /\ exists(fs, staging_directory)
             THEN /\ ret'.outcome = "return"
                  /\ fs' = fs \cup {resolved(jd.job_directory)}
                  /\ parent_of(resolved(jd.job_directory)) = resolved(staging_directory)
             ELSE ret'.outcome = "OSError" /\ fs' = fs]_vars

\* C10: make_directory creates a directory inside the job's root or fails
\* and changes nothing; it never creates a directory outside the root.
C10_MakeDirectoryInside ==
    [][(call'.op = "make_directory" /\ proper(jd.job_directory))
          => /\ \A d \in fs' \ fs : is_prefix(resolved(jd.job_directory), d)
             /\ (ret'.outcome # "return" => fs' = fs)]_vars

\* ----------------------------------------------- atomicish_move (SpecMove)
tmp_suffix == <<"_TMP">>

\* a move that writes straight to the destination
temp_destination_direct(destination) == destination

\* temp_destination of atomicish_move
temp_destination(destination) ==
    join(dirname(destination), basename(destination) \o tmp_suffix)

absent == [present |-> FALSE, data |-> <<>>]

file(data) == [present |-> TRUE, data |-> data]

Blocks == {"p", "q"}

RECURSIVE DataOfLen(_)
DataOfLen(n) ==
    IF n = 0 THEN {<<>>} ELSE {Append(d, b) : d \in DataOfLen(n - 1), b \in Blocks}

Contents == UNION {DataOfLen(n) : n \in 0..MaxChunks}

stale == file(<<"old">>)

Destinations == {<<"/", "a", "/", "a">>, <<"a">>}

\* the source lies elsewhere, or is the file that already has the temporary name
Sources(destination) == {<<"/", ".", "/", "a">>, temp_destination(destination)}

\* atomicish_move(source, destination) is called; source is a file, the
\* temporary name and the destination are absent or left from an earlier run.
InitMove ==
    /\ \E destination \in Destinations, content \in Contents, same_fs \in BOOLEAN :
       \E source \in Sources(destination), t \in {absent, stale}, d \in {absent, stale} :
          /\ files = (source :> file(content)) @@ (destination :> d)
                     @@ (temp_destination(destination) :> t)
          /\ mv = [pc |-> "move", source |-> source, destination |-> destination,
                   same_fs |-> same_fs \/ source = temp_destination(destination),
                   content |-> content,
                   dest_absent |-> source # destination /\ ~d.present]
    /\ fs = {} /\ call = no_call /\ ret = pending /\ jd = no_jd
    /\ mgr_idle

\* os.rename(src, dst)
rename(fl, src, dst) ==
    IF src = dst THEN fl
    ELSE [fl EXCEPT ![dst] = fl[src], ![src] = absent]

\* shutil.move: os.rename succeeds
MoveRename ==
    /\ mv.pc = "move" /\ mv.same_fs
    /\ files' = rename(files, mv.source, temp_destination(mv.destination))
    /\ mv' = [mv EXCEPT !.pc = "rename"]
    /\ UNCHANGED <<fs, call, ret, jd, status, seen>>

\* shutil.move: os.rename raises OSError, copy2 opens the temporary file "wb"
MoveCopyOpen ==
    /\ mv.pc = "move" /\ ~mv.same_fs
    /\ files' = [files EXCEPT ![temp_destination(mv.destination)] = file(<<>>)]
    /\ mv' = [mv EXCEPT !.pc = "copy"]
    /\ UNCHANGED <<fs, call, ret, jd, status, seen>>

\* copyfileobj: one buffer is read from source and written
MoveCopyBlock ==
    /\ mv.pc = "copy"
    /\ LET t == temp_destination(mv.destination)
           n == Len(files[t].data)
       IN  /\ n < Len(files[mv.source].data)
           /\ files' = [files EXCEPT ![t] = file(Append(files[t].data,
                                                        files[mv.source].data[n + 1]))]
    /\ UNCHANGED <<mv, fs, call, ret, jd, status, seen>>

\* copyfileobj reads the end of source; copy2 returns
MoveCopyEnd ==
    /\ mv.pc = "copy"
    /\ Len(files[temp_destination(mv.destination)].data) = Len(files[mv.source].data)
    /\ mv' = [mv EXCEPT !.pc = "unlink"]
    /\ UNCHANGED <<files, fs, call, ret, jd, status, seen>>

\* shutil.move: os.unlink(src)
MoveUnlink ==
    /\ mv.pc = "unlink"
    /\ files' = [files EXCEPT ![mv.source] = absent]
    /\ mv' = [mv EXCEPT !.pc = "rename"]
    /\ UNCHANGED <<fs, call, ret, jd, status, seen>>

\* os.rename(temp_destination, destination)
FinalRename ==
    /\ mv.pc = "rename"
    /\ files' = rename(files, temp_destination(mv.destination), mv.destination)
    /\ mv' = [mv EXCEPT !.pc = "done"]
    /\ UNCHANGED <<fs, call, ret, jd, status, seen>>

\* the pending system call fails (IOFailure): the exception leaves atomicish_move
Raise ==
    /\ mv.pc \in {"move", "copy", "unlink", "rename"}
    /\ mv' = [mv EXCEPT !.pc = "raised"]
    /\ UNCHANGED <<files, fs, call, ret, jd, status, seen>>

\* the process is interrupted
Interrupt ==
    /\ mv.pc \in {"move", "copy", "unlink", "rename"}
    /\ mv' = [mv EXCEPT !.pc = "killed"]
    /\ UNCHANGED <<files, fs, call, ret, jd, status, seen>>

NextMove ==
    \/ MoveRename
    \/ MoveCopyOpen
    \/ MoveCopyBlock
    \/ MoveCopyEnd
    \/ MoveUnlink
    \/ FinalRename
    \/ Raise
    \/ Interrupt

SpecMove == InitMove /\ [][NextMove]_vars

\* ----------------------------------------------- properties of SpecMove
\* C5: with destination absent beforehand, destination does not exist in any
\* state before the final rename, whatever interrupts or fails; once the final
\* rename has happened it holds the complete content of source and source is
\* gone.  Destination never holds part of the content.
C5_AtomicPublish ==
    mv.dest_absent
        => /\ mv.pc # "done" => ~files[mv.destination].present
           /\ mv.pc = "done" => /\ files[mv.destination] = file(mv.content)
                                /\ ~files[mv.source].present

\* the copy to the temporary name was interrupted half way
C5_Witness ==
    /\ mv.dest_absent /\ mv.pc = "killed"
    /\ files[temp_destination(mv.destination)].present
    /\ files[mv.source].present
    /\ Len(files[temp_destination(mv.destination)].data) \in 1..(Len(mv.content) - 1)

\* ------------------------------------------- manager lifecycle (SpecMgr)
\* ManagerInterface declares the operations; what they do to a job's status
\* is the lifecycle of the specification: queued -> running -> complete,
\* kill from queued or running to cancelled.
Jobs == 1..MaxJobs

Terminal == {"complete", "cancelled"}

Launched == {"queued", "running"} \cup Terminal

\* kill that cancels whatever the status is
kill_status_always(s) == IF s \in Launched THEN "cancelled" ELSE s

\* the status kill leaves a job in
kill_status(s) == IF s \in {"queued", "running"} THEN "cancelled" ELSE s

\* the status the backend moves a job to
progress_status(s) == IF s = "queued" THEN "running" ELSE "complete"

InitMgr ==
    /\ status = [j \in Jobs |-> "unknown"]
    /\ seen = [op |-> "none", job |-> 0, result |-> "ok"]
    /\ fs = {} /\ call = no_call /\ ret = pending /\ jd = no_jd
    /\ move_idle

SetupJob(j) ==
    /\ status[j] = "unknown"
    /\ status' = [status EXCEPT ![j] = "setup"]
    /\ seen' = [op |-> "setup_job", job |-> j, result |-> "ok"]
    /\ UNCHANGED <<fs, call, ret, jd, files, mv>>

\* a local backend runs the command at once, a queueing backend queues it
Launch(j) ==
    /\ status[j] = "setup"
    /\ \E s \in {"queued", "running"} : status' = [status EXCEPT ![j] = s]
    /\ seen' = [op |-> "launch", job |-> j, result |-> "ok"]
    /\ UNCHANGED <<fs, call, ret, jd, files, mv>>

Progress(j) ==
    /\ status[j] \in {"queued", "running"}
    /\ status' = [status EXCEPT ![j] = progress_status(status[j])]
    /\ UNCHANGED <<seen, fs, call, ret, jd, files, mv>>

GetStatus(j) ==
    /\ status[j] \in Launched \cup {"unknown"}
    /\ seen' = [op |-> "get_status", job |-> j,
                result |-> IF status[j] = "unknown" THEN "NotFound" ELSE status[j]]
    /\ UNCHANGED <<status, fs, call, ret, jd, files, mv>>

Kill(j) ==
    /\ status[j] \in Launched \cup {"unknown"}
    /\ status' = [status EXCEPT ![j] = kill_status(status[j])]
    /\ seen' = [op |-> "kill", job |-> j,
                result |-> IF status[j] = "unknown" THEN "NotFound" ELSE "ok"]
    /\ UNCHANGED <<fs, call, ret, jd, files, mv>>

NextMgr ==
    \/ \E j \in Jobs : SetupJob(j)
    \/ \E j \in Jobs : Launch(j)
    \/ \E j \in Jobs : Progress(j)
    \/ \E j \in Jobs : GetStatus(j)
    \/ \E j \in Jobs : Kill(j)

SpecMgr == InitMgr /\ [][NextMgr]_vars

\* ------------------------------------------------ properties of SpecMgr
\* C6: "complete" and "cancelled" are terminal: a job in either never changes
\* status again; kill on such a job changes nothing and reports no error; a
\* kill changes a status only from "queued" or "running", and to "cancelled".
C6_TerminalStays ==
    [][/\ \A j \in Jobs : status[j] \in Terminal => status'[j] = status[j]
       /\ \A j \in Jobs :
             (seen'.op = "kill" /\ seen'.job = j /\ status'[j] # status[j])
                => (status[j] \in {"queued", "running"} /\ status'[j] = "cancelled")
       /\ \A j \in Jobs :
             (seen'.op = "kill" /\ seen'.job = j /\ status[j] \in Terminal)
                => seen'.result = "ok"]_vars

\* kill was called on a complete job
C6_Witness ==
    seen.op = "kill" /\ seen.result = "ok" /\ status[seen.job] = "complete"

====
